---- MODULE Spec2Model ----
(***************************************************************************)
(* SecLogAI: log ingestion, truncation, synthetic generation, aggregation  *)
(* and the chat context window of src/src/services/geminiService.ts        *)
(* (the file holds both the Gemini service and the App component).         *)
(*                                                                         *)
(* Representation of JavaScript values                                     *)
(*   string of characters   a sequence of runs <<sym, n>>: the symbol sym  *)
(*                          repeated n times (n = 1 for ordinary text)     *)
(*   short field strings    TLA+ strings ("LOGIN_FAILED", "Unknown")       *)
(*   ISO-8601 timestamp     <<"iso", ms>>: the string toISOString() gives   *)
(*                          for the instant ms (milliseconds since epoch)  *)
(*   number                 <<"number", n>>                                *)
(*   undefined              <<"undefined", 0>>                             *)
(*   object                 a function from its own property names         *)
(***************************************************************************)
EXTENDS Integers, Sequences, FiniteSets, TLC

VARIABLES logs, isAnalyzing, analysisOutput, chatInput, messages, activeTab,
          showSingleLogModal, singleLogInput,
          pending, budget, now,
          reader, stats, chartData, renders,
          trunc, gen

vars == <<logs, isAnalyzing, analysisOutput, chatInput, messages, activeTab,
          showSingleLogModal, singleLogInput, pending, budget, now,
          reader, stats, chartData, renders, trunc, gen>>

appVars == <<logs, isAnalyzing, analysisOutput, chatInput, messages, activeTab,
             showSingleLogModal, singleLogInput, pending, budget, now, reader>>

aggVars == <<stats, chartData, renders>>

\* ------------------------------------------------------------------------
\* JavaScript values
\* ------------------------------------------------------------------------

Undefined == <<"undefined", 0>>

JsNum(n) == <<"number", n>>

JsStr(s) == <<"string", s>>

Iso(ms) == <<"iso", ms>>

\* o.f for an object o: undefined when o has no own property f
Get(o, f) == IF f \in DOMAIN o THEN o[f] ELSE Undefined

Min(a, b) == IF a < b THEN a ELSE b

Max(a, b) == IF a > b THEN a ELSE b

\* ------------------------------------------------------------------------
\* Character strings as sequences of runs
\* ------------------------------------------------------------------------

Ch(c) == <<"ch", c>>

Lit(name) == <<"lit", name>>

\* the text s consisting of the single symbol sym
Str1(sym) == << <<sym, 1>> >>

\* "\n\n[NOTE: Logs were truncated for analysis due to size constraints.
\* Showing first 500k characters.]" has 98 characters
TRUNCATION_NOTE_LEN == 98

\* "Analyze these logs:\n" has 20 characters
PROMPT_PREFIX_LEN == 20

\* number of characters of one occurrence of a symbol; an object literal
\* (the JSON text of one object) has no width here: no length is ever taken
\* of a text that holds one
Width(sym) ==
    CASE sym[1] = "ch" -> 1
      [] sym = Lit("TRUNCATION_NOTE") -> TRUNCATION_NOTE_LEN
      [] sym = Lit("PROMPT_PREFIX") -> PROMPT_PREFIX_LEN

RECURSIVE StrLen(_)
StrLen(s) == IF s = <<>> THEN 0
             ELSE Width(s[1][1]) * s[1][2] + StrLen(Tail(s))

\* s.substring(0, n) for n >= 0
RECURSIVE Substring0(_, _)
Substring0(s, n) ==
    IF s = <<>> \/ n <= 0 THEN <<>>
    ELSE LET w == Width(s[1][1])
             k == Min(s[1][2], n \div w)
         IN  IF k = 0 THEN <<>>
             ELSE IF k < s[1][2] THEN << <<s[1][1], k>> >>
             ELSE << s[1] >> \o Substring0(Tail(s), n - w * k)

\* ------------------------------------------------------------------------
\* Truncator: analyzeLogsWithGemini (lines 48-86)
\* ------------------------------------------------------------------------

MAX_CHARS == 500000

NOTE == Str1(Lit("TRUNCATION_NOTE"))

TruncateGE(logText) ==
    IF StrLen(logText) >= MAX_CHARS
    THEN [processedLogs |-> Substring0(logText, MAX_CHARS), truncationNote |-> NOTE]
    ELSE [processedLogs |-> logText, truncationNote |-> <<>>]

\* lines 54-60: processedLogs and truncationNote
Truncate(logText) ==
    IF StrLen(logText) > MAX_CHARS
    THEN [processedLogs |-> Substring0(logText, MAX_CHARS), truncationNote |-> NOTE]
    ELSE [processedLogs |-> logText, truncationNote |-> <<>>]

PromptTextUncut(logText) ==
    Str1(Lit("PROMPT_PREFIX")) \o logText \o Truncate(logText).truncationNote

\* line 79: the text part of the request
PromptText(logText) ==
    LET t == Truncate(logText)
    IN  Str1(Lit("PROMPT_PREFIX")) \o t.processedLogs \o t.truncationNote

\* line 85: response.text || "No analysis generated."
ReportOf(responseText) ==
    IF responseText = <<>> THEN Str1(Lit("No analysis generated.")) ELSE responseText

\* the reports the analyzer may answer with: a text, or no text at all
ResponseTexts == {Str1(Lit("REPORT")), <<>>}

\* the descriptions a failure of the analyzer may carry (error?.message)
ErrorMessages == {JsStr("token count too large"), JsStr("quota exceeded"), Undefined}

\* Inputs of the truncator: texts of at most MaxRuns runs of the characters
\* a and b whose lengths lie around the limit
MaxRuns == 2

RunLens == {1, 2, MAX_CHARS - 1, MAX_CHARS, MAX_CHARS + 1, 2 * MAX_CHARS}

RunSeqs == UNION {[1..n -> {Ch("a"), Ch("b")} \X RunLens] : n \in 0..MaxRuns}

TruncInputs == {s \in RunSeqs : \A i \in 1..(Len(s) - 1) : s[i][1] # s[i + 1][1]}

\* lines 190-192: the message list holds the welcome at first
InitialMessages ==
    << [role |-> "assistant", content |-> Str1(Lit("Welcome to SecLogAI SOC Monitor."))] >>

\* lines 186-196: the state of the App component after construction, but
\* for logs; no call of the analyzer is pending and no file has been read
AppFresh ==
    /\ isAnalyzing = FALSE /\ analysisOutput = <<>>
    /\ chatInput = <<>> /\ messages = InitialMessages /\ activeTab = "dashboard"
    /\ showSingleLogModal = FALSE /\ singleLogInput = <<>>
    /\ pending = <<>>
    /\ reader = [loads |-> 0, result |-> <<>>]

\* the App component where a specification of one component leaves it alone
AppRestIdle == AppFresh /\ budget = 0 /\ now = 0

AppIdle == logs = <<>> /\ AppRestIdle

AggIdle == stats = "none" /\ chartData = "none" /\ renders = 0

TruncIdle == trunc = [pc |-> "idle"]

GenIdle == gen = [pc |-> "idle"]

InitTrunc ==
    /\ AppIdle /\ AggIdle /\ GenIdle
    /\ \E s \in TruncInputs : trunc = [pc |-> "call", logs |-> s]

\* analyzeLogsWithGemini up to the await of line 77
AnalyzeLogsWithGemini ==
    /\ trunc.pc = "call"
    /\ LET t == Truncate(trunc.logs)
       IN  trunc' = [pc |-> "sent", logs |-> trunc.logs,
                     processedLogs |-> t.processedLogs,
                     truncationNote |-> t.truncationNote,
                     text |-> PromptText(trunc.logs)]
    /\ UNCHANGED <<appVars, aggVars, gen>>

\* the analyzer answers: line 85
AnalyzeReturn ==
    /\ trunc.pc = "sent"
    /\ \E r \in ResponseTexts :
          trunc' = [trunc EXCEPT !.pc = "returned"] @@ [result |-> ReportOf(r)]
    /\ UNCHANGED <<appVars, aggVars, gen>>

\* the analyzer fails: the await of line 77 throws to the caller
AnalyzeThrow ==
    /\ trunc.pc = "sent"
    /\ \E e \in ErrorMessages :
          trunc' = [trunc EXCEPT !.pc = "thrown"] @@ [error |-> e]
    /\ UNCHANGED <<appVars, aggVars, gen>>

NextTrunc == AnalyzeLogsWithGemini \/ AnalyzeReturn \/ AnalyzeThrow

SpecTrunc == InitTrunc /\ [][NextTrunc]_vars

\* p is a prefix of s, for texts in which adjacent runs differ in symbol
RECURSIVE IsPrefix(_, _)
IsPrefix(p, s) ==
    \/ p = <<>>
    \/ /\ s # <<>>
       /\ p[1][1] = s[1][1]
       /\ \/ p[1][2] = s[1][2] /\ IsPrefix(Tail(p), Tail(s))
          \/ p[1][2] < s[1][2] /\ Len(p) = 1

\* C4: a text of at most MAX_CHARS characters is processed unchanged and
\* gets no notice (also at exactly MAX_CHARS); a longer one is cut to its
\* first MAX_CHARS characters and followed by the truncation notice.
C4_Truncation ==
    trunc.pc \in {"sent", "returned", "thrown"} =>
        IF StrLen(trunc.logs) <= 500000
        THEN /\ trunc.processedLogs = trunc.logs
             /\ trunc.truncationNote = <<>>
             /\ trunc.text = Str1(Lit("PROMPT_PREFIX")) \o trunc.logs
        ELSE /\ StrLen(trunc.processedLogs) = 500000
             /\ IsPrefix(trunc.processedLogs, trunc.logs)
             /\ trunc.truncationNote = NOTE
             /\ trunc.text = Str1(Lit("PROMPT_PREFIX")) \o trunc.processedLogs \o NOTE

C4_Witness ==
    /\ trunc.pc = "sent"
    /\ StrLen(trunc.logs) > 500000
    /\ trunc.truncationNote = NOTE
    /\ StrLen(trunc.processedLogs) = 500000

\* C14: every prompt text handed to the analyzer has at most 500,000
\* characters, whatever the length of the input.
C14_PromptBound ==
    trunc.pc \in {"sent", "returned", "thrown"} => StrLen(trunc.text) <= 500000

\* C14, amended: the bound of 500,000 characters holds for the log text
\* inside the prompt; the prompt is the 20 characters of its heading, the
\* first min(n, 500,000) of the n characters of the input and, for
\* n > 500,000, the 98 characters of the notice: at most 500,118 in all.
C14_PromptLength ==
    trunc.pc \in {"sent", "returned", "thrown"} =>
        LET n == StrLen(trunc.logs)
        IN  /\ StrLen(trunc.processedLogs) <= 500000
            /\ StrLen(trunc.text) = 20 + Min(n, 500000) + (IF n > 500000 THEN 98 ELSE 0)
            /\ StrLen(trunc.text) <= 500118

\* a prompt of the greatest length, sent for an input of twice the limit
C14_Witness ==
    /\ trunc.pc = "sent"
    /\ StrLen(trunc.logs) >= 1000000
    /\ StrLen(trunc.text) = 500118

\* ------------------------------------------------------------------------
\* Dates.  Instants are counted in milliseconds from a reference instant, a
\* local midnight (TLC's integers have 32 bits, too few for milliseconds
\* since 1970); every instant of the model is a valid Date.
\* ------------------------------------------------------------------------

\* new Date(v).getTime() for an ISO-8601 string v
DateGetTime(v) == v[2]

\* new Date(ms).toISOString()
ToISOString(ms) == Iso(ms)

\* ------------------------------------------------------------------------
\* Synthetic log generator: generateDemoLogs (lines 95-135)
\* ------------------------------------------------------------------------

ips == <<"192.168.1.10", "10.0.0.5", "203.0.113.5", "45.33.22.11", "172.16.0.44">>

users == <<"admin", "root", "jdoe", "guest", "service_account">>

actions == <<"LOGIN_SUCCESS", "LOGIN_FAILED", "FILE_ACCESS", "SUDO_EXEC", "PROCESS_START">>

\* Math.random() yields r / 1000 for a value r of RandVals; the source of
\* randomness is a sequence of such values, read cyclically: the k-th call
\* (k = 0, 1, ...) returns seed[(k mod Len(seed)) + 1] / 1000
RandVals == {0, 300, 600, 900}

MaxSeed == 3

Seeds == UNION {[1..n -> RandVals] : n \in 1..MaxSeed}

Random(seed, k) == seed[(k % Len(seed)) + 1]

\* Math.floor(Math.random() * pool.length), as an index from 1
RandomIndex(r, pool) == ((r * Len(pool)) \div 1000) + 1

\* lines 111-120: the eight records of a brute-force burst that starts at
\* the instant ms
BurstRecord(ms, j) ==
    [timestamp |-> ToISOString(ms + j * 1000),
     ip |-> JsStr(ips[3]),
     user |-> JsStr(users[1]),
     action |-> JsStr("LOGIN_FAILED"),
     event_id |-> JsNum(4625),
     severity |-> JsStr("High")]

BurstOfSeven(ms) == [j \in 1..7 |-> BurstRecord(ms, j - 1)]

Burst(ms) == [j \in 1..8 |-> BurstRecord(ms, j - 1)]

\* lines 123-131: one record of normal traffic, from the random values of the
\* calls k+2 .. k+6
NormalRecord(timestamp, seed, k) ==
    [timestamp |-> timestamp,
     ip |-> JsStr(ips[RandomIndex(Random(seed, k + 2), ips)]),
     user |-> JsStr(users[RandomIndex(Random(seed, k + 3), users)]),
     action |-> JsStr(actions[RandomIndex(Random(seed, k + 4), actions)]),
     event_id |-> IF Random(seed, k + 5) > 500 THEN JsNum(4624) ELSE JsNum(4625),
     status_code |-> IF Random(seed, k + 6) > 800 THEN JsNum(403) ELSE JsNum(200),
     severity |-> JsStr("Info")]

\* lines 104-132: one pass of the loop body, followed by the loop's own i++.
\* st.i is the slot, st.k the number of calls of Math.random() made so far,
\* st.logs the records pushed so far
GenStep(nowMs, seed, st) ==
    LET timestamp == ToISOString(nowMs - Random(seed, st.k) * 3600)
        isAttack == Random(seed, st.k + 1) < 50
    IN  IF isAttack
        THEN [i |-> (st.i + 7) + 1, k |-> st.k + 2,
              logs |-> st.logs \o Burst(DateGetTime(timestamp))]
        ELSE [i |-> st.i + 1, k |-> st.k + 7,
              logs |-> Append(st.logs, NormalRecord(timestamp, seed, st.k))]

\* line 103: for (let i = 0; i < count; i++), at most n passes of it
RECURSIVE GenPasses(_, _, _, _, _)
GenPasses(count, nowMs, seed, st, n) ==
    IF n = 0 \/ ~(st.i < count) THEN st
    ELSE GenPasses(count, nowMs, seed, GenStep(nowMs, seed, st), n - 1)

\* line 103: the whole loop, evaluated sixteen passes at a time (which
\* keeps the evaluation shallow and changes nothing in the result)
RECURSIVE GenLoop(_, _, _, _)
GenLoop(count, nowMs, seed, st) ==
    IF ~(st.i < count) THEN st.logs
    ELSE GenLoop(count, nowMs, seed, GenPasses(count, nowMs, seed, st, 16))

NoSort(l) == l

\* line 134: logs.sort((a, b) => time(a) - time(b)).  Array.prototype.sort
\* is stable, so with this comparator its result is the one ordering by
\* time in which records of equal time keep their order; it is computed
\* here by inserting the records one by one, each behind the records that
\* are not later than it.
SortInsert(sorted, x) ==
    LET k == Cardinality({j \in 1..Len(sorted) :
                 DateGetTime(sorted[j].timestamp) <= DateGetTime(x.timestamp)})
    IN  SubSeq(sorted, 1, k) \o <<x>> \o SubSeq(sorted, k + 1, Len(sorted))

RECURSIVE SortPasses(_, _, _)
SortPasses(l, st, n) ==
    IF n = 0 \/ st.i > Len(l) THEN st
    ELSE SortPasses(l, [i |-> st.i + 1, out |-> SortInsert(st.out, l[st.i])], n - 1)

RECURSIVE SortLoop(_, _)
SortLoop(l, st) ==
    IF st.i > Len(l) THEN st.out
    ELSE SortLoop(l, SortPasses(l, st, 16))

SortByTime(l) == SortLoop(l, [i |-> 1, out |-> <<>>])

GenerateDemoLogs(count, nowMs, seed) ==
    SortByTime(GenLoop(count, nowMs, seed, [i |-> 0, k |-> 0, logs |-> <<>>]))

\* handleDemo calls generateDemoLogs(150)  (line 243)
DemoCount == 150

MaxCount == 9

Counts == 0..MaxCount \cup {DemoCount}

\* the instants at which the program is observed: 01:00 of the first day and
\* 00:10 of the second, whose last hour spans midnight
NowVals == {3600000, 86400000 + 600000}

InitGen ==
    /\ AppIdle /\ AggIdle /\ TruncIdle
    /\ \E c \in Counts, s \in Seeds, n \in NowVals :
          gen = [pc |-> "call", count |-> c, seed |-> s, now |-> n]

CallGenerateDemoLogs ==
    /\ gen.pc = "call"
    /\ gen' = [gen EXCEPT !.pc = "done"] @@
               [result |-> GenerateDemoLogs(gen.count, gen.now, gen.seed)]
    /\ UNCHANGED <<appVars, aggVars, trunc>>

NextGen == CallGenerateDemoLogs

SpecGen == InitGen /\ [][NextGen]_vars

\* l holds a burst: eight records of one ip and one user with eventId 4625
\* at instants t, t + 1 s, ..., t + 7 s
HasBurst(l) ==
    \E a \in 1..Len(l) :
        \A j \in 0..7 :
            \E b \in 1..Len(l) :
                /\ DateGetTime(l[b].timestamp) = DateGetTime(l[a].timestamp) + j * 1000
                /\ l[b].ip = l[a].ip
                /\ Get(l[b], "user") = Get(l[a], "user")
                /\ Get(l[b], "event_id") = JsNum(4625)

\* C8: every batch of generateDemoLogs(150) holds at least one burst.
C8_DemoHasBurst ==
    (gen.pc = "done" /\ gen.count = 150) => HasBurst(gen.result)

\* C9: the batch generateDemoLogs returns is sorted by time: no record is
\* later than its successor, records of bursts included.
C9_Sorted ==
    gen.pc = "done" =>
        \A i \in 1..(Len(gen.result) - 1) :
            DateGetTime(gen.result[i].timestamp) <= DateGetTime(gen.result[i + 1].timestamp)

\* a returned batch with a burst in it that the loop did not produce in order
C9_Witness ==
    /\ gen.pc = "done"
    /\ HasBurst(gen.result)
    /\ Len(gen.result) > 8
    /\ gen.result # GenLoop(gen.count, gen.now, gen.seed, [i |-> 0, k |-> 0, logs |-> <<>>])

\* C13: generateDemoLogs(count) returns exactly count records, whatever
\* count >= 0 and whatever the random choices.
C13_ExactCount ==
    gen.pc = "done" => Len(gen.result) = gen.count

\* C20: every record generateDemoLogs returns, those of bursts included,
\* has its timestamp within the hour before the instant of the call:
\* now - 3,600,000 ms <= timestamp <= now.
C20_LastHour ==
    gen.pc = "done" =>
        \A i \in 1..Len(gen.result) :
            /\ gen.now - 3600000 <= DateGetTime(gen.result[i].timestamp)
            /\ DateGetTime(gen.result[i].timestamp) <= gen.now

\* the positions of the records of severity High in a batch
HighIn(l) == {i \in 1..Len(l) : Get(l[i], "severity") = JsStr("High")}

\* C21: the records of bursts come in eights, one second apart, each with
\* action LOGIN_FAILED, ip 203.0.113.5, user admin, eventId 4625 and
\* severity High, and a burst takes eight slots of the loop; every other
\* record has severity Info, ip, user and action from the pools, eventId
\* 4624 or 4625 and statusCode 200 or 403.  So the records of severity
\* High number a multiple of 8, and the batch has one record per slot taken.
C21_BurstShape ==
    gen.pc = "done" =>
        LET l == gen.result
            high == HighIn(l)
            times == {DateGetTime(l[i].timestamp) : i \in high}
            pool(q) == {JsStr(q[i]) : i \in 1..Len(q)}
        IN  /\ Cardinality(high) % 8 = 0
            /\ \A i \in high :
                  /\ l[i].action = JsStr("LOGIN_FAILED")
                  /\ l[i].ip = JsStr("203.0.113.5")
                  /\ l[i].user = JsStr("admin")
                  /\ l[i].event_id = JsNum(4625)
                  /\ \E j \in 0..7 :
                        \A m \in 0..7 :
                            DateGetTime(l[i].timestamp) + (m - j) * 1000 \in times
            /\ \A i \in (1..Len(l)) \ high :
                  /\ l[i].severity = JsStr("Info")
                  /\ l[i].ip \in pool(ips)
                  /\ l[i].user \in pool(users)
                  /\ l[i].action \in pool(actions)
                  /\ l[i].event_id \in {JsNum(4624), JsNum(4625)}
                  /\ l[i].status_code \in {JsNum(200), JsNum(403)}
            /\ Len(l) >= gen.count
            /\ Len(l) - gen.count <= 7
            /\ (high = {} => Len(l) = gen.count)

\* a returned batch of a record of normal traffic and a burst behind it
\* that took more slots than were left
C21_Witness ==
    /\ gen.pc = "done"
    /\ Cardinality(HighIn(gen.result)) = 8
    /\ Len(gen.result) = 9
    /\ gen.count < 9
    /\ gen.count > 1

\* ------------------------------------------------------------------------
\* Aggregator: stats and chartData of the App component (lines 328-345)
\* ------------------------------------------------------------------------

\* the characters of the action strings of the model
Chars(str) ==
    CASE str = "FAILED" -> <<"F", "A", "I", "L", "E", "D">>
      [] str = "LOGIN_FAILED" -> <<"L", "O", "G", "I", "N", "_", "F", "A", "I", "L", "E", "D">>
      [] str = "LOGIN_SUCCESS" -> <<"L", "O", "G", "I", "N", "_", "S", "U", "C", "C", "E", "S", "S">>
      [] str = "FILE_ACCESS" -> <<"F", "I", "L", "E", "_", "A", "C", "C", "E", "S", "S">>
      [] str = "SUDO_EXEC" -> <<"S", "U", "D", "O", "_", "E", "X", "E", "C">>
      [] str = "PROCESS_START" -> <<"P", "R", "O", "C", "E", "S", "S", "_", "S", "T", "A", "R", "T">>
      [] str = "RAW_LOG" -> <<"R", "A", "W", "_", "L", "O", "G">>
      [] str = "demo" -> <<"d", "e", "m", "o">>
      [] str = "run Demo" -> <<"r", "u", "n", " ", "D", "e", "m", "o">>
      [] str = "any threats?" -> <<"a", "n", "y", " ", "t", "h", "r", "e", "a", "t", "s", "?">>
      [] str = "token count" -> <<"t", "o", "k", "e", "n", " ", "c", "o", "u", "n", "t">>
      [] str = "token count too large" ->
            <<"t", "o", "k", "e", "n", " ", "c", "o", "u", "n", "t", " ",
              "t", "o", "o", " ", "l", "a", "r", "g", "e">>
      [] str = "quota exceeded" ->
            <<"q", "u", "o", "t", "a", " ", "e", "x", "c", "e", "e", "d", "e", "d">>

\* the characters ps occur in the characters cs, one after the other
SeqIncludes(cs, ps) ==
    \E i \in 0..(Len(cs) - Len(ps)) : SubSeq(cs, i + 1, i + Len(ps)) = ps

\* str.includes(pat)
Includes(str, pat) == SeqIncludes(Chars(str), Chars(pat))

\* log.action?.includes('FAILED'): undefined, so not true, without an action
ActionIncludesFAILED(l) ==
    LET a == Get(l, "action")
    IN  a[1] = "string" /\ Includes(a[2], "FAILED")

\* line 330: the predicate of stats.failed
IsFailedStat(l) ==
    \/ ActionIncludesFAILED(l)
    \/ Get(l, "status_code") = JsNum(403)
    \/ Get(l, "event_id") = JsNum(4625)

\* line 332: the predicate of stats.critical
IsCritical(l) ==
    \/ Get(l, "severity") = JsStr("Critical")
    \/ Get(l, "severity") = JsStr("High")

\* lines 328-333
Stats(batch) ==
    [total |-> Len(batch),
     failed |-> Len(SelectSeq(batch, IsFailedStat)),
     uniqueIps |-> Cardinality({Get(batch[i], "ip") : i \in 1..Len(batch)}),
     critical |-> Len(SelectSeq(batch, IsCritical))]

\* line 336: format(new Date(log.timestamp), 'HH:mm'), the local hour and
\* minute as the five characters d d : d d (the digits as numbers)
FormatHHmm(v) ==
    LET minuteOfDay == (DateGetTime(v) \div 60000) % 1440
        h == minuteOfDay \div 60
        m == minuteOfDay % 60
    IN  <<h \div 10, h % 10, ":", m \div 10, m % 10>>

\* a.localeCompare(b) < 0 for two HH:mm labels: the first digit that differs
\* decides
LabelLess(a, b) ==
    \E i \in {1, 2, 4, 5} :
        /\ a[i] < b[i]
        /\ \A j \in {1, 2, 4, 5} : j < i => a[j] = b[j]

ChartStepWide(acc, log) ==
    LET time == FormatHHmm(log.timestamp)
        failed == IF IsFailedStat(log) THEN 1 ELSE 0
        hits == {i \in 1..Len(acc) : acc[i].time = time}
    IN  IF hits # {}
        THEN LET e == CHOOSE i \in hits : \A j \in hits : i <= j
             IN  [acc EXCEPT ![e] = [time |-> time,
                                     count |-> @.count + 1,
                                     failed |-> @.failed + failed]]
        ELSE Append(acc, [time |-> time, count |-> 1, failed |-> failed])

\* lines 335-344: the callback of reduce for one log
ChartStep(acc, log) ==
    LET time == FormatHHmm(log.timestamp)
        failed == IF ActionIncludesFAILED(log) THEN 1 ELSE 0
        hits == {i \in 1..Len(acc) : acc[i].time = time}
    IN  IF hits # {}
        THEN LET e == CHOOSE i \in hits : \A j \in hits : i <= j
             IN  [acc EXCEPT ![e] = [time |-> time,
                                     count |-> @.count + 1,
                                     failed |-> @.failed + failed]]
        ELSE Append(acc, [time |-> time, count |-> 1, failed |-> failed])

RECURSIVE ChartPasses(_, _, _)
ChartPasses(batch, st, n) ==
    IF n = 0 \/ st.i > Len(batch) THEN st
    ELSE ChartPasses(batch, [i |-> st.i + 1, acc |-> ChartStep(st.acc, batch[st.i])], n - 1)

\* logs.reduce(..., []), evaluated sixteen logs at a time
RECURSIVE ChartReduce(_, _)
ChartReduce(batch, st) ==
    IF st.i > Len(batch) THEN st.acc
    ELSE ChartReduce(batch, ChartPasses(batch, st, 16))

\* line 345: .sort((a, b) => a.time.localeCompare(b.time)), stable: each
\* bucket goes behind the buckets whose label is not greater
ChartSortInsert(sorted, x) ==
    LET k == Cardinality({j \in 1..Len(sorted) : ~LabelLess(x.time, sorted[j].time)})
    IN  SubSeq(sorted, 1, k) \o <<x>> \o SubSeq(sorted, k + 1, Len(sorted))

RECURSIVE ChartSortPasses(_, _, _)
ChartSortPasses(l, st, n) ==
    IF n = 0 \/ st.i > Len(l) THEN st
    ELSE ChartSortPasses(l, [i |-> st.i + 1, out |-> ChartSortInsert(st.out, l[st.i])], n - 1)

RECURSIVE ChartSortLoop(_, _)
ChartSortLoop(l, st) ==
    IF st.i > Len(l) THEN st.out
    ELSE ChartSortLoop(l, ChartSortPasses(l, st, 16))

ChartSort(l) == ChartSortLoop(l, [i |-> 1, out |-> <<>>])

NoSlice(l) == l

\* line 345: .slice(-20)
SliceLast20(l) == SubSeq(l, Max(1, Len(l) - 20 + 1), Len(l))

\* lines 335-345
ChartData(batch) ==
    SliceLast20(ChartSort(ChartReduce(batch, [i |-> 1, acc |-> <<>>])))

\* Batches given to the aggregator: every batch of at most MaxBatch records
\* of AggRecords, and ramps of 19 to 22 records one minute (or one day and one
\* minute) apart, in ascending or descending order of time, some of them
\* across midnight
MaxBatch == 2

AggVariants ==
    {<<"1.2.3.4", 1800000, "Info">>, <<"10.0.0.5", 1801000, "High">>,
     <<"1.2.3.4", 1860000, "Critical">>}

AggRecords ==
    {[timestamp |-> Iso(v[2]), ip |-> JsStr(v[1]), action |-> JsStr(a),
      status_code |-> sc, event_id |-> e, severity |-> JsStr(v[3])] :
        v \in AggVariants,
        a \in {"LOGIN_FAILED", "LOGIN_SUCCESS"},
        sc \in {JsNum(200), JsNum(403)},
        e \in {JsNum(4624), JsNum(4625), JsStr("4625")}}

RampBatch(n, startMinute, stepMinutes, descending) ==
    [i \in 1..n |->
        [timestamp |-> Iso((startMinute + stepMinutes * (IF descending THEN n - i ELSE i - 1)) * 60000),
         ip |-> JsStr("10.0.0.5"),
         action |-> JsStr(IF i % 2 = 0 THEN "LOGIN_FAILED" ELSE "FILE_ACCESS"),
         event_id |-> JsNum(4624)]]

RampBatches ==
    {RampBatch(n, s, k, d) : n \in 19..22, s \in {600, 1430}, k \in {1, 1441},
                             d \in BOOLEAN}

AggBatches == UNION {[1..n -> AggRecords] : n \in 0..MaxBatch} \cup RampBatches

MaxRenders == 2

InitAgg ==
    /\ logs \in AggBatches
    /\ AppRestIdle /\ AggIdle /\ TruncIdle /\ GenIdle

RenderSortingLogs ==
    /\ renders < MaxRenders
    /\ renders' = renders + 1
    /\ logs' = SortByTime(logs)
    /\ stats' = Stats(logs')
    /\ chartData' = ChartData(logs')
    /\ UNCHANGED <<isAnalyzing, analysisOutput, chatInput, messages, activeTab,
                   showSingleLogModal, singleLogInput, pending, budget, now,
                   reader, trunc, gen>>

\* one run of the component body: stats and chartData are computed anew
\* from logs (lines 328-345); nothing in it assigns to logs or to a record
Render ==
    /\ renders < MaxRenders
    /\ renders' = renders + 1
    /\ stats' = Stats(logs)
    /\ chartData' = ChartData(logs)
    /\ UNCHANGED <<appVars, trunc, gen>>

NextAgg == Render

SpecAgg == InitAgg /\ [][NextAgg]_vars

\* the number of records of the batch that satisfy P
CountOf(batch, P(_)) == Cardinality({i \in 1..Len(batch) : P(batch[i])})

\* the failed predicate as C5 states it: the eventId 4625 as a number or as
\* a string
C5_IsFailed(l) ==
    \/ ActionIncludesFAILED(l)
    \/ Get(l, "status_code") = JsNum(403)
    \/ Get(l, "event_id") \in {JsNum(4625), JsStr("4625")}

C5_IsCritical(l) == Get(l, "severity") \in {JsStr("High"), JsStr("Critical")}

\* C5: total is the batch size, failed the number of records with FAILED in
\* the action, statusCode 403 or eventId 4625 (number or string), each
\* counted once, uniqueIps the number of distinct ips, critical the number
\* of records of severity High or Critical; all four are 0 for no records.
C5_Stats ==
    renders > 0 =>
        /\ stats.total = Len(logs)
        /\ stats.failed = CountOf(logs, C5_IsFailed)
        /\ stats.uniqueIps = Cardinality({logs[i].ip : i \in 1..Len(logs)})
        /\ stats.critical = CountOf(logs, C5_IsCritical)
        /\ (logs = <<>> => stats = [total |-> 0, failed |-> 0, uniqueIps |-> 0, critical |-> 0])

\* the minute of the day a label HH:mm stands for
LabelMinute(t) == (t[1] * 10 + t[2]) * 60 + (t[4] * 10 + t[5])

LabelsOf(batch) == {FormatHHmm(batch[i].timestamp) : i \in 1..Len(batch)}

\* C6: the timeline has at most 20 buckets, one for each retained label and
\* none twice, in strictly ascending order of label; no buckets for no
\* records.
C6_Timeline ==
    renders > 0 =>
        /\ Len(chartData) <= 20
        /\ Len(chartData) = Min(20, Cardinality(LabelsOf(logs)))
        /\ \A i \in 1..Len(chartData) : chartData[i].time \in LabelsOf(logs)
        /\ \A i, j \in 1..Len(chartData) : i < j => chartData[i].time # chartData[j].time
        /\ \A i \in 1..(Len(chartData) - 1) :
              LabelMinute(chartData[i].time) < LabelMinute(chartData[i + 1].time)
        /\ (logs = <<>> => chartData = <<>>)

\* a batch of more than 20 minutes, not in order of label, cut to 20 buckets
C6_Witness ==
    /\ renders > 0
    /\ Cardinality(LabelsOf(logs)) > 20
    /\ Len(chartData) = 20
    /\ \E i \in 1..(Len(logs) - 1) :
          LabelMinute(FormatHHmm(logs[i + 1].timestamp)) < LabelMinute(FormatHHmm(logs[i].timestamp))

MinuteOf(l) == DateGetTime(l.timestamp) \div 60000

\* C18: of more than 20 minute buckets the timeline keeps the 20 most
\* recent: every record of a retained bucket lies in a later minute than
\* every record of a dropped bucket, also across midnight and over days.
C18_MostRecent ==
    (renders > 0 /\ Cardinality(LabelsOf(logs)) > 20) =>
        LET kept == {chartData[i].time : i \in 1..Len(chartData)}
        IN  \A a, b \in 1..Len(logs) :
                (/\ FormatHHmm(logs[a].timestamp) \in kept
                 /\ FormatHHmm(logs[b].timestamp) \notin kept)
                => MinuteOf(logs[a]) > MinuteOf(logs[b])

\* the sum of failedCount over the buckets of a timeline
RECURSIVE SumFailed(_)
SumFailed(buckets) ==
    IF buckets = <<>> THEN 0 ELSE buckets[1].failed + SumFailed(Tail(buckets))

\* the records of the batch that fall under the label t
RecordsOf(batch, t) == {k \in 1..Len(batch) : FormatHHmm(batch[k].timestamp) = t}

\* C19: a bucket's failedCount counts the records of its label whose
\* action contains FAILED and no others, while Stats.failed also counts
\* the records of statusCode 403 or of the eventId 4625 (the number); so
\* failedCount <= totalCount in every bucket and the failedCounts of the
\* timeline sum to at most Stats.failed.
C19_FailedTally ==
    renders > 0 =>
        /\ \A i \in 1..Len(chartData) :
              LET recs == RecordsOf(logs, chartData[i].time)
              IN  /\ chartData[i].count = Cardinality(recs)
                  /\ chartData[i].failed =
                        Cardinality({k \in recs : ActionIncludesFAILED(logs[k])})
                  /\ chartData[i].failed <= chartData[i].count
        /\ stats.failed =
              Cardinality({k \in 1..Len(logs) :
                  \/ ActionIncludesFAILED(logs[k])
                  \/ Get(logs[k], "status_code") = JsNum(403)
                  \/ Get(logs[k], "event_id") = JsNum(4625)})
        /\ SumFailed(chartData) <= stats.failed

\* an aggregated batch with a record of statusCode 403 and one of eventId
\* 4625 whose actions hold no FAILED: counted by Stats.failed, by no bucket
C19_Witness ==
    /\ renders > 0
    /\ \E k \in 1..Len(logs) :
          ~ActionIncludesFAILED(logs[k]) /\ Get(logs[k], "status_code") = JsNum(403)
    /\ \E k \in 1..Len(logs) :
          /\ ~ActionIncludesFAILED(logs[k])
          /\ Get(logs[k], "status_code") = JsNum(200)
          /\ Get(logs[k], "event_id") = JsNum(4625)
    /\ stats.failed = 2
    /\ SumFailed(chartData) = 0

\* ------------------------------------------------------------------------
\* Texts of files and JSON.  The JSON text of one object is a single symbol
\* <<"obj", o, indent>> that carries the object o; a "{" that opens no
\* well-formed object is the character Ch("{").
\* ------------------------------------------------------------------------

Obj(o, indent) == <<"obj", o, indent>>

\* a text of single symbols
TextOf(syms) == [i \in 1..Len(syms) |-> <<syms[i], 1>>]

\* the symbols of a text, one by one
RECURSIVE Expand(_)
Expand(s) ==
    IF \A i \in 1..Len(s) : s[i][2] = 1 THEN [i \in 1..Len(s) |-> s[i][1]]
    ELSE [i \in 1..s[1][2] |-> s[1][1]] \o Expand(Tail(s))

IsWhitespace(sym) == sym \in {Ch(" "), Ch("\n")}

NotWhitespace(sym) == ~IsWhitespace(sym)

\* the first character of a symbol
FirstChar(sym) == IF sym[1] = "obj" THEN "{" ELSE sym[2]

\* text.trim().startsWith(c)
TrimStartsWith(text, c) ==
    LET rest == SelectSeq(Expand(text), NotWhitespace)
    IN  rest # <<>> /\ rest[1][1] \in {"ch", "obj"} /\ FirstChar(rest[1]) = c

\* !text.trim()
TrimIsEmpty(text) == SelectSeq(Expand(text), NotWhitespace) = <<>>

ParseFail == [ok |-> FALSE, val |-> <<>>, next |-> 0]

\* JSON.parse on the symbols toks, white space removed, from position p:
\* value ::= object | "[" "]" | "[" value ("," value)* "]"
RECURSIVE ParseValue(_, _), ParseElemStep(_, _), ParseElemPasses(_, _, _), ParseElems(_, _)
ParseValue(toks, p) ==
    IF p > Len(toks) THEN ParseFail
    ELSE IF toks[p][1] = "obj" THEN [ok |-> TRUE, val |-> toks[p][2], next |-> p + 1]
    ELSE IF toks[p] = Ch("[")
         THEN IF p + 1 <= Len(toks) /\ toks[p + 1] = Ch("]")
              THEN [ok |-> TRUE, val |-> <<>>, next |-> p + 2]
              ELSE LET st == ParseElems(toks, [p |-> p + 1, vals |-> <<>>, status |-> "more"])
                   IN  IF st.status = "done"
                       THEN [ok |-> TRUE, val |-> st.vals, next |-> st.p]
                       ELSE ParseFail
    ELSE ParseFail

\* one element of an array and the "," or "]" behind it
ParseElemStep(toks, st) ==
    LET v == ParseValue(toks, st.p)
    IN  IF ~v.ok \/ v.next > Len(toks) THEN [st EXCEPT !.status = "fail"]
        ELSE IF toks[v.next] = Ch(",")
             THEN [p |-> v.next + 1, vals |-> Append(st.vals, v.val), status |-> "more"]
        ELSE IF toks[v.next] = Ch("]")
             THEN [p |-> v.next + 1, vals |-> Append(st.vals, v.val), status |-> "done"]
        ELSE [st EXCEPT !.status = "fail"]

ParseElemPasses(toks, st, n) ==
    IF n = 0 \/ st.status # "more" THEN st
    ELSE ParseElemPasses(toks, ParseElemStep(toks, st), n - 1)

\* the elements of an array, evaluated sixteen at a time
ParseElems(toks, st) ==
    IF st.status # "more" THEN st
    ELSE ParseElems(toks, ParseElemPasses(toks, st, 16))

\* JSON.parse(text): ok is false where it throws
JSONParse(text) ==
    LET toks == SelectSeq(Expand(text), NotWhitespace)
        v == ParseValue(toks, 1)
    IN  IF v.ok /\ v.next = Len(toks) + 1
        THEN [ok |-> TRUE, isArray |-> toks[1] = Ch("["), val |-> v.val]
        ELSE [ok |-> FALSE, isArray |-> FALSE, val |-> <<>>]

\* JSON.stringify(batch): "[" object "," object ... "]"
Stringify(batch) ==
    LET n == Len(batch)
    IN  IF n = 0 THEN TextOf(<<Ch("["), Ch("]")>>)
        ELSE TextOf([k \in 1..(2 * n + 1) |->
                 IF k = 1 THEN Ch("[")
                 ELSE IF k = 2 * n + 1 THEN Ch("]")
                 ELSE IF k % 2 = 0 THEN Obj(batch[k \div 2], 0)
                 ELSE Ch(",")])

\* JSON.stringify(batch, null, 2): every element on a line of its own,
\* indented by two spaces
StringifyPretty(batch) ==
    LET n == Len(batch)
    IN  IF n = 0 THEN TextOf(<<Ch("["), Ch("]")>>)
        ELSE TextOf([k \in 1..(5 * n + 2) |->
                 IF k = 1 THEN Ch("[")
                 ELSE IF k = 5 * n + 2 THEN Ch("]")
                 ELSE IF k = 5 * n + 1 THEN Ch("\n")
                 ELSE LET r == (k - 2) % 5
                      IN  IF r = 0 THEN Ch("\n")
                          ELSE IF r \in {1, 2} THEN Ch(" ")
                          ELSE IF r = 3 THEN Obj(batch[((k - 2) \div 5) + 1], 2)
                          ELSE Ch(",")])

\* text.split('\n'): the lines of a text, as sequences of symbols
SplitLines(text) ==
    LET toks == Expand(text)
        n == Len(toks)
        breaks == {0} \cup {i \in 1..n : toks[i] = Ch("\n")}
        next(b) == IF \E c \in breaks : c > b
                   THEN CHOOSE c \in breaks : c > b /\ \A d \in breaks : d > b => c <= d
                   ELSE n + 1
        nth(k) == CHOOSE b \in breaks : Cardinality({c \in breaks : c < b}) = k - 1
    IN  [k \in 1..Cardinality(breaks) |-> SubSeq(toks, nth(k) + 1, next(nth(k)) - 1)]

\* l.trim() is not empty
LineNotBlank(line) == SelectSeq(line, NotWhitespace) # <<>>

JsText(text) == <<"text", text>>

RawBatchAllLines(text, nowMs) ==
    LET lines == SplitLines(text)
    IN  [k \in 1..Len(lines) |->
            [timestamp |-> ToISOString(nowMs),
             ip |-> JsStr("Unknown"),
             action |-> JsStr("RAW_LOG"),
             message |-> JsText(TextOf(lines[k]))]]

\* lines 285-291: the batch of a text read as raw lines
RawBatch(text, nowMs) ==
    LET lines == SelectSeq(SplitLines(text), LineNotBlank)
    IN  [k \in 1..Len(lines) |->
            [timestamp |-> ToISOString(nowMs),
             ip |-> JsStr("Unknown"),
             action |-> JsStr("RAW_LOG"),
             message |-> JsText(TextOf(lines[k]))]]

\* ------------------------------------------------------------------------
\* The App component: handlers and the answers of the analyzer
\* (lines 185-345 and 428-437).  pending holds the calls of
\* analyzeLogsWithGemini that await their answer, each with the handler that
\* made it and the text it passed; budget bounds the handlers that may
\* still run; reader is the FileReader: the files read and the last text.
\* ------------------------------------------------------------------------

Remove(seq, i) == SubSeq(seq, 1, i - 1) \o SubSeq(seq, i + 1, Len(seq))

\* line 336: format(new Date(log.timestamp), 'HH:mm') throws a RangeError
\* for a record without a valid timestamp.  chartData is computed in the
\* body of the component, so the render that follows the setLogs of such a
\* batch fails and the component is taken down: from then on no handler
\* runs and no answer of the analyzer reaches its state.  Mounted holds
\* while every record of the batch can be rendered.
Mounted == \A i \in 1..Len(logs) : Get(logs[i], "timestamp")[1] = "iso"

UserMessage(content) == [role |-> "user", content |-> content]

AssistantMessage(content) == [role |-> "assistant", content |-> content]

\* the characters of a text of characters and literal words
RECURSIVE TextChars(_)
TextChars(text) ==
    IF text = <<>> THEN <<>>
    ELSE (IF text[1][1][1] = "ch" THEN <<text[1][1][2]>> ELSE Chars(text[1][1][2]))
         \o TextChars(Tail(text))

\* c.toLowerCase() for the characters of the model's words
LowerChar(c) ==
    CASE c = "D" -> "d"
      [] c = "E" -> "e"
      [] c = "M" -> "m"
      [] c = "O" -> "o"
      [] OTHER -> c

\* line 310: userMsg.toLowerCase().includes('demo')
IncludesDemo(userMsg) ==
    LET cs == TextChars(userMsg)
    IN  SeqIncludes([i \in 1..Len(cs) |-> LowerChar(cs[i])], Chars("demo"))

\* line 262: error?.message?.includes('token count')
MentionsTokenCount(e) == e[1] = "string" /\ Includes(e[2], "token count")

ProcessLogsCallCancelling(logText) ==
    /\ isAnalyzing' = TRUE
    /\ pending' = << [kind |-> "processLogs", logs |-> logText] >>

\* lines 254-256: processLogs up to its await: the busy flag is set and the
\* text goes to analyzeLogsWithGemini
ProcessLogsCall(logText) ==
    /\ isAnalyzing' = TRUE
    /\ pending' = Append(pending, [kind |-> "processLogs", logs |-> logText])

UploadCatchSilent(text) ==
    /\ logs' = logs
    /\ UNCHANGED <<isAnalyzing, pending>>

\* lines 295-297: the catch of handleFileUpload
UploadCatch(text) ==
    /\ logs' = logs
    /\ ProcessLogsCall(text)

BatchOfArrayOnly(parsed) == IF parsed.isArray THEN parsed.val ELSE <<>>

\* line 282: Array.isArray(parsed) ? parsed : [parsed]
BatchOf(parsed) == IF parsed.isArray THEN parsed.val ELSE <<parsed.val>>

\* lines 276-298: reader.onload of handleFileUpload, for a file of the
\* content text
HandleFileUpload(text) ==
    /\ budget > 0
    /\ Mounted
    /\ budget' = budget - 1
    /\ reader' = [loads |-> reader.loads + 1, result |-> text]
    /\ IF TrimStartsWith(text, "[") \/ TrimStartsWith(text, "{")
       THEN LET parsed == JSONParse(text)
            IN  IF parsed.ok
                THEN /\ logs' = BatchOf(parsed)
                     /\ ProcessLogsCall(text)
                ELSE UploadCatch(text)
       ELSE /\ logs' = RawBatch(text, now)
            /\ ProcessLogsCall(text)
    /\ UNCHANGED <<analysisOutput, chatInput, messages, activeTab,
                   showSingleLogModal, singleLogInput, now, aggVars, trunc, gen>>

\* lines 243-246: the body of handleDemo, msgs being the message list it
\* appends to
DemoBody(seed, msgs) ==
    /\ logs' = GenerateDemoLogs(DemoCount, now, seed)
    /\ messages' = Append(msgs, UserMessage(Str1(Lit("Run demo simulation"))))
    /\ ProcessLogsCall(StringifyPretty(logs'))

\* the outcomes of Math.random() the App is run with: one record of normal
\* traffic, then bursts
DemoSeeds == {<<0, 600>>}

\* lines 242-247: the Demo Simulation button
HandleDemo ==
    /\ budget > 0
    /\ Mounted
    /\ budget' = budget - 1
    /\ \E seed \in DemoSeeds : DemoBody(seed, messages)
    /\ UNCHANGED <<analysisOutput, chatInput, activeTab, showSingleLogModal,
                   singleLogInput, now, reader, aggVars, trunc, gen>>

\* lines 428-437: Load Sample, text being what the fetch of the sample file
\* answered
LoadSample(text) ==
    /\ budget > 0
    /\ Mounted
    /\ budget' = budget - 1
    /\ LET parsed == JSONParse(text)
       IN  IF parsed.ok
           THEN /\ logs' = parsed.val
                /\ ProcessLogsCall(text)
                /\ UNCHANGED messages
           ELSE /\ messages' = Append(messages,
                        AssistantMessage(Str1(Lit("Could not load sample file."))))
                /\ UNCHANGED <<logs, isAnalyzing, pending>>
    /\ UNCHANGED <<analysisOutput, chatInput, activeTab, showSingleLogModal,
                   singleLogInput, now, reader, aggVars, trunc, gen>>

ChatContextAll(batch) ==
    IF Len(batch) > 0
    THEN Str1(Lit("Current Logs Context: ")) \o Stringify(batch)
         \o TextOf(<<Ch("\n"), Ch("\n")>>)
    ELSE <<>>

\* line 317: the context put before the user's message
ChatContext(batch) ==
    IF Len(batch) > 0
    THEN Str1(Lit("Current Logs Context: "))
         \o Stringify(SubSeq(batch, 1, Min(50, Len(batch))))
         \o TextOf(<<Ch("\n"), Ch("\n")>>)
    ELSE <<>>

\* lines 302-318: handleChatSubmit up to its await, the user having typed
\* input into the chat field; the submit button is disabled while
\* isAnalyzing (line 690)
HandleChatSubmit(input) ==
    /\ budget > 0
    /\ Mounted
    /\ ~isAnalyzing
    /\ ~TrimIsEmpty(input)
    /\ budget' = budget - 1
    /\ chatInput' = <<>>
    /\ IF IncludesDemo(input)
       THEN \E seed \in DemoSeeds : DemoBody(seed, Append(messages, UserMessage(input)))
       ELSE /\ messages' = Append(messages, UserMessage(input))
            /\ isAnalyzing' = TRUE
            /\ pending' = Append(pending,
                    [kind |-> "chat", logs |-> ChatContext(logs) \o input])
            /\ logs' = logs
    /\ UNCHANGED <<analysisOutput, activeTab, showSingleLogModal, singleLogInput,
                   now, reader, aggVars, trunc, gen>>

\* lines 225-232: handleSingleLogAnalysis up to its await, the user having
\* typed input into the modal
HandleSingleLogAnalysis(input) ==
    /\ budget > 0
    /\ Mounted
    /\ ~TrimIsEmpty(input)
    /\ budget' = budget - 1
    /\ singleLogInput' = input
    /\ showSingleLogModal' = FALSE
    /\ activeTab' = "chat"
    /\ messages' = Append(messages,
            UserMessage(Str1(Lit("Analyze this single event: ")) \o input))
    /\ isAnalyzing' = TRUE
    /\ pending' = Append(pending,
            [kind |-> "single",
             logs |-> Str1(Lit("SINGLE EVENT ANALYSIS REQUEST:\n")) \o input])
    /\ UNCHANGED <<logs, analysisOutput, chatInput, now, reader, aggVars, trunc, gen>>

\* lines 256-259 and 266-268: the analyzer answers a call of processLogs
ProcessLogsResolve(i, responseText) ==
    /\ pending[i].kind = "processLogs"
    /\ Mounted
    /\ pending' = Remove(pending, i)
    /\ analysisOutput' = ReportOf(responseText)
    /\ messages' = Append(messages, AssistantMessage(ReportOf(responseText)))
    /\ activeTab' = "dashboard"
    /\ isAnalyzing' = FALSE
    /\ UNCHANGED <<logs, chatInput, showSingleLogModal, singleLogInput, budget,
                   now, reader, aggVars, trunc, gen>>

ProcessLogsRejectSilent(i, e) ==
    /\ pending[i].kind = "processLogs"
    /\ Mounted
    /\ pending' = Remove(pending, i)
    /\ isAnalyzing' = FALSE
    /\ UNCHANGED <<logs, analysisOutput, activeTab, chatInput, showSingleLogModal,
                   singleLogInput, budget, now, reader, aggVars, trunc, gen,
                   messages>>

ProcessLogsRejectToDashboard(i, e) ==
    /\ pending[i].kind = "processLogs"
    /\ Mounted
    /\ pending' = Remove(pending, i)
    /\ messages' = Append(messages, AssistantMessage(
            IF MentionsTokenCount(e)
            THEN Str1(Lit("The log file is too large for full analysis."))
            ELSE Str1(Lit("Error analyzing logs."))))
    /\ activeTab' = "dashboard"
    /\ isAnalyzing' = FALSE
    /\ UNCHANGED <<logs, analysisOutput, chatInput, showSingleLogModal,
                   singleLogInput, budget, now, reader, aggVars, trunc, gen>>

\* lines 260-268: the analyzer fails a call of processLogs
ProcessLogsReject(i, e) ==
    /\ pending[i].kind = "processLogs"
    /\ Mounted
    /\ pending' = Remove(pending, i)
    /\ messages' = Append(messages, AssistantMessage(
            IF MentionsTokenCount(e)
            THEN Str1(Lit("The log file is too large for full analysis."))
            ELSE Str1(Lit("Error analyzing logs."))))
    /\ isAnalyzing' = FALSE
    /\ UNCHANGED <<logs, analysisOutput, activeTab, chatInput, showSingleLogModal,
                   singleLogInput, budget, now, reader, aggVars, trunc, gen>>

\* lines 318-319 and 322-324: the analyzer answers a chat request
ChatResolve(i, responseText) ==
    /\ pending[i].kind = "chat"
    /\ Mounted
    /\ pending' = Remove(pending, i)
    /\ messages' = Append(messages, AssistantMessage(ReportOf(responseText)))
    /\ isAnalyzing' = FALSE
    /\ UNCHANGED <<logs, analysisOutput, activeTab, chatInput, showSingleLogModal,
                   singleLogInput, budget, now, reader, aggVars, trunc, gen>>

\* lines 320-324: the analyzer fails a chat request
ChatReject(i) ==
    /\ pending[i].kind = "chat"
    /\ Mounted
    /\ pending' = Remove(pending, i)
    /\ messages' = Append(messages,
            AssistantMessage(Str1(Lit("Error processing request."))))
    /\ isAnalyzing' = FALSE
    /\ UNCHANGED <<logs, analysisOutput, activeTab, chatInput, showSingleLogModal,
                   singleLogInput, budget, now, reader, aggVars, trunc, gen>>

\* lines 232-233 and 236-239: the analyzer answers a single-event request
SingleResolve(i, responseText) ==
    /\ pending[i].kind = "single"
    /\ Mounted
    /\ pending' = Remove(pending, i)
    /\ messages' = Append(messages, AssistantMessage(ReportOf(responseText)))
    /\ isAnalyzing' = FALSE
    /\ singleLogInput' = <<>>
    /\ UNCHANGED <<logs, analysisOutput, activeTab, chatInput, showSingleLogModal,
                   budget, now, reader, aggVars, trunc, gen>>

\* lines 234-239: the analyzer fails a single-event request
SingleReject(i) ==
    /\ pending[i].kind = "single"
    /\ Mounted
    /\ pending' = Remove(pending, i)
    /\ messages' = Append(messages,
            AssistantMessage(Str1(Lit("Error analyzing single event."))))
    /\ isAnalyzing' = FALSE
    /\ singleLogInput' = <<>>
    /\ UNCHANGED <<logs, analysisOutput, activeTab, chatInput, showSingleLogModal,
                   budget, now, reader, aggVars, trunc, gen>>

\* Objects of uploaded files: one with the three required properties, one
\* that lacks ip and timestamp
ObjFull ==
    [timestamp |-> Iso(1800000), ip |-> JsStr("1.2.3.4"), action |-> JsStr("LOGIN_FAILED")]

ObjPartial == [action |-> JsStr("LOGIN_FAILED"), user |-> JsStr("admin")]

\* The files the App is run with: a JSON array, an array that is cut off,
\* two raw lines around a blank one
AppTexts ==
    {TextOf(<<Ch("["), Obj(ObjFull, 0), Ch(","), Obj(ObjPartial, 0), Ch("]")>>),
     TextOf(<<Ch("["), Obj(ObjFull, 0)>>),
     TextOf(<<Ch("x"), Ch("\n"), Ch(" "), Ch("\n"), Ch("x")>>)}

\* What the fetch of the sample file may answer: a JSON array of 60 records,
\* or a text that is no JSON
SampleTexts ==
    {Stringify(RampBatch(60, 600, 1, FALSE)), TextOf(<<Ch("x")>>)}

\* What the user types into the chat field; the blank input is not submitted
ChatInputs == {Str1(Lit("any threats?")), Str1(Lit("run Demo")), Str1(Ch(" "))}

SingleInputs == {TextOf(<<Obj(ObjPartial, 0)>>)}

MaxOps == 2

Init ==
    /\ logs = <<>>
    /\ AppFresh
    /\ budget = MaxOps
    /\ now = 3600000
    /\ AggIdle /\ TruncIdle /\ GenIdle

Next ==
    \/ \E t \in AppTexts : HandleFileUpload(t)
    \/ HandleDemo
    \/ \E t \in SampleTexts : LoadSample(t)
    \/ \E c \in ChatInputs : HandleChatSubmit(c)
    \/ \E e \in SingleInputs : HandleSingleLogAnalysis(e)
    \/ \E i \in DOMAIN pending, r \in ResponseTexts : ProcessLogsResolve(i, r)
    \/ \E i \in DOMAIN pending, e \in ErrorMessages : ProcessLogsReject(i, e)
    \/ \E i \in DOMAIN pending, r \in ResponseTexts : ChatResolve(i, r)
    \/ \E i \in DOMAIN pending : ChatReject(i)
    \/ \E i \in DOMAIN pending, r \in ResponseTexts : SingleResolve(i, r)
    \/ \E i \in DOMAIN pending : SingleReject(i)

Spec == Init /\ [][Next]_vars

\* the reports a request may be answered with
Reports == {ReportOf(r) : r \in ResponseTexts}

\* the messages that report the failure of a request: of processLogs (lines
\* 263-264), of a chat request (line 321), of a single-event request
\* (line 235)
FailureMessages ==
    {Str1(Lit("The log file is too large for full analysis.")),
     Str1(Lit("Error analyzing logs.")),
     Str1(Lit("Error processing request.")),
     Str1(Lit("Error analyzing single event."))}

\* the last message of a list
LastOf(msgs) == msgs[Len(msgs)]

C16_Uncoordinated ==
    [][/\ Len(pending') > Len(pending) =>
            /\ Len(pending') = Len(pending) + 1
            /\ SubSeq(pending', 1, Len(pending)) = pending
       /\ Len(pending') = Len(pending) => pending' = pending
       /\ Len(pending') < Len(pending) =>
            /\ \E i \in DOMAIN pending : pending' = Remove(pending, i)
            /\ messages' = Append(messages, LastOf(messages'))
            /\ logs' = logs
       /\ (/\ \E i \in DOMAIN pending :
                 pending[i].kind = "processLogs" /\ pending' = Remove(pending, i)
           /\ LastOf(messages').content \notin FailureMessages)
          => analysisOutput' = LastOf(messages').content
       /\ analysisOutput' # analysisOutput =>
            \E i \in DOMAIN pending :
                pending[i].kind = "processLogs" /\ pending' = Remove(pending, i)]_vars

\* a file was read and the demo started, in either order; the request of
\* the demo, whose batch is the current one, is still in flight while the
\* report on the file is analysisOutput and the last message
C16_Witness ==
    /\ reader.loads = 1
    /\ budget = MaxOps - 2
    /\ Len(logs) >= 150
    /\ analysisOutput = Str1(Lit("REPORT"))
    /\ LastOf(messages) = AssistantMessage(analysisOutput)
    /\ pending = << [kind |-> "processLogs", logs |-> StringifyPretty(logs)] >>

\* C17: when a call of processLogs fails, the message appended is the
\* too-large message if the description of the failure contains
\* "token count" and the generic one if it does not or there is none;
\* analysisOutput, the batch and the active tab stay as they are.
C17_FailureMessage ==
    [][\A i \in DOMAIN pending : \A e \in ErrorMessages :
          ProcessLogsReject(i, e) =>
              /\ LastOf(messages').content =
                    IF /\ e[1] = "string"
                       /\ SeqIncludes(Chars(e[2]),
                              <<"t", "o", "k", "e", "n", " ", "c", "o", "u", "n", "t">>)
                    THEN Str1(Lit("The log file is too large for full analysis."))
                    ELSE Str1(Lit("Error analyzing logs."))
              /\ Len(messages') = Len(messages) + 1
              /\ analysisOutput' = analysisOutput
              /\ logs' = logs
              /\ activeTab' = activeTab]_vars

\* the too-large message, appended while the chat tab is active and a
\* batch is loaded: the tab did not go to the dashboard
C17_Witness ==
    /\ LastOf(messages) =
          AssistantMessage(Str1(Lit("The log file is too large for full analysis.")))
    /\ activeTab = "chat"
    /\ logs # <<>>
    /\ pending = <<>>

\* C22: the busy flag isAnalyzing is true in every state in which a
\* request to the analyzer is outstanding and false in every state in
\* which none is, whatever the order of handlers and answers.
C22_BusyIffInFlight ==
    isAnalyzing <=> pending # <<>>

\* ------------------------------------------------------------------------
\* Ingestion alone: one file is read, over a batch of an earlier file or
\* none, and the analyzer answers.  The files are all texts of at most
\* MaxTextLen symbols.
\* ------------------------------------------------------------------------

MaxTextLen == 3

UploadSyms ==
    {Ch("["), Ch("]"), Ch(","), Ch(" "), Ch("\n"), Ch("x"), Ch("{"),
     Obj(ObjFull, 0), Obj(ObjPartial, 0)}

UploadTexts == {TextOf(q) : q \in UNION {[1..n -> UploadSyms] : n \in 0..MaxTextLen}}

PrevBatches == {<<>>, <<ObjFull>>}

InitIngest ==
    /\ logs \in PrevBatches
    /\ AppFresh
    /\ budget = 1
    /\ now \in NowVals
    /\ AggIdle /\ TruncIdle /\ GenIdle

NextIngest ==
    \/ \E t \in UploadTexts : HandleFileUpload(t)
    \/ \E i \in DOMAIN pending, r \in ResponseTexts : ProcessLogsResolve(i, r)
    \/ \E i \in DOMAIN pending, e \in ErrorMessages : ProcessLogsReject(i, e)

SpecIngest == InitIngest /\ [][NextIngest]_vars

RequiredFields == {"timestamp", "ip", "action"}

\* the value C1 gives a record for a required property it lacks
C1_Fallback(f, nowMs) ==
    CASE f = "timestamp" -> ToISOString(nowMs)
      [] f = "ip" -> JsStr("Unknown")
      [] f = "action" -> JsStr("RAW_LOG")

\* C1: after a file that is a JSON array, the batch has the length of the
\* array and every record of it has timestamp, ip and action, a missing one
\* replaced by its fallback.
C1_ArrayNormalized ==
    LET parsed == JSONParse(reader.result)
    IN  (reader.loads > 0 /\ parsed.ok /\ parsed.isArray) =>
            /\ Len(logs) = Len(parsed.val)
            /\ \A i \in 1..Len(logs) : \A f \in RequiredFields :
                  /\ Get(logs[i], f) # Undefined
                  /\ Get(logs[i], f) = IF Get(parsed.val[i], f) # Undefined
                                       THEN Get(parsed.val[i], f)
                                       ELSE C1_Fallback(f, now)

\* C2: a file that starts with [ or { and is no JSON leaves the batch of
\* its raw lines, not the batch of before.
C2_FallsBackToRaw ==
    [][(/\ reader'.loads = reader.loads + 1
        /\ TrimStartsWith(reader'.result, "[") \/ TrimStartsWith(reader'.result, "{")
        /\ ~JSONParse(reader'.result).ok)
       => logs' = RawBatch(reader'.result, now)]_vars

\* C3: each file read is passed to processLogs exactly once, as it was read,
\* whichever way its normalization went; no other step makes a request.
C3_AnalyzerOnce ==
    [][/\ reader'.loads = reader.loads + 1 =>
            pending' = Append(pending, [kind |-> "processLogs", logs |-> reader'.result])
       /\ reader'.loads = reader.loads => Len(pending') <= Len(pending)]_vars

\* a file that starts with [ and is no JSON, passed on to the analyzer
C3_Witness ==
    /\ reader.loads = 1
    /\ TrimStartsWith(reader.result, "[")
    /\ ~JSONParse(reader.result).ok
    /\ pending = << [kind |-> "processLogs", logs |-> reader.result] >>
    /\ isAnalyzing


\* the objects of a text, in order
ObjectsIn(text) ==
    LET os == SelectSeq(Expand(text), LAMBDA sym : sym[1] = "obj")
    IN  [i \in 1..Len(os) |-> os[i][2]]

\* C10: a chat message that starts no demo goes to the analyzer behind the
\* labelled JSON of the first min(50, n) records of the batch of n > 0
\* records, in their order, and on its own for the empty batch.
C10_ChatContext ==
    [][(/\ Len(pending') = Len(pending) + 1
        /\ pending'[Len(pending')].kind = "chat")
       => LET text == pending'[Len(pending')].logs
              msg == messages'[Len(messages')].content
              body == SubSeq(text, 2, Len(text) - Len(msg) - 2)
          IN  IF logs = <<>> THEN text = msg
              ELSE /\ text[1] = <<Lit("Current Logs Context: "), 1>>
                   /\ JSONParse(body).ok
                   /\ JSONParse(body).isArray
                   /\ JSONParse(body).val = SubSeq(logs, 1, Min(50, Len(logs)))
                   /\ SubSeq(text, Len(text) - Len(msg) - 1, Len(text))
                        = TextOf(<<Ch("\n"), Ch("\n")>>) \o msg]_vars

\* a chat request made over a batch of 60 records, 50 of them in its text
C10_Witness ==
    /\ Len(logs) = 60
    /\ \E i \in DOMAIN pending :
          /\ pending[i].kind = "chat"
          /\ ObjectsIn(pending[i].logs) = SubSeq(logs, 1, 50)

\* the lines of the symbols toks that hold more than white space, read
\* symbol by symbol: cur is the line being read, out the lines kept so far
RECURSIVE C11_Lines(_, _, _)
C11_Lines(toks, cur, out) ==
    LET kept == IF \E i \in 1..Len(cur) : cur[i] \notin {Ch(" "), Ch("\n")}
                THEN Append(out, cur) ELSE out
    IN  IF toks = <<>> THEN kept
        ELSE IF Head(toks) = Ch("\n") THEN C11_Lines(Tail(toks), <<>>, kept)
        ELSE C11_Lines(Tail(toks), Append(cur, Head(toks)), out)

\* C11: a file whose trimmed text starts with neither [ nor { leaves a
\* batch of one record per line that is not blank, in the order of the
\* lines: message is the line, ip "Unknown", action "RAW_LOG", timestamp
\* the current time; empty and white-space lines leave no record.
C11_RawMode ==
    [][(/\ reader'.loads = reader.loads + 1
        /\ ~TrimStartsWith(reader'.result, "[")
        /\ ~TrimStartsWith(reader'.result, "{"))
       => LET lines == C11_Lines(Expand(reader'.result), <<>>, <<>>)
          IN  /\ Len(logs') = Len(lines)
              /\ \A k \in 1..Len(lines) :
                    logs'[k] = [timestamp |-> Iso(now),
                                ip |-> JsStr("Unknown"),
                                action |-> JsStr("RAW_LOG"),
                                message |-> JsText(TextOf(lines[k]))]]_vars

\* a raw file of more lines than records: one of its lines is blank
C11_Witness ==
    LET toks == Expand(reader.result)
    IN  /\ reader.loads = 1
        /\ ~TrimStartsWith(reader.result, "[")
        /\ ~TrimStartsWith(reader.result, "{")
        /\ Len(logs) >= 1
        /\ Len(logs) < Cardinality({i \in 1..Len(toks) : toks[i] = Ch("\n")}) + 1
        /\ logs[1].action = JsStr("RAW_LOG")
        /\ logs[1].timestamp = Iso(now)

====
